---- MODULE Spec2Model ----
(***************************************************************************)
(* Model of data_handler.py: the stream-and-index layer over Kaldi         *)
(* archives (.ark) and scripts (.scp).                                     *)
(*                                                                         *)
(* Text and bytes are sequences of one-character strings; the cell "NUL"   *)
(* stands for the zero byte.  None is the value NoneV.                     *)
(***************************************************************************)
EXTENDS Integers, Sequences, FiniteSets, TLC

\* ------------------------------------------------------------------ bounds
\* write calls made inside one writer scope
MaxWrites == 2
\* lines of an index file that exists before the program starts
MaxLines == 3
\* records the command of a pipe address writes to its standard output
MaxPipeRecs == 1
\* bytes a pipe holds before a write to it waits for the reader
PipeCap == 8
\* lines of the index the command of a pipe address writes
MaxPipeLines == 2

\* ------------------------------------------------------------ characters
TAB == "\t"
NL == "\n"
SP == " "
NUL == "NUL"
Whitespace == {SP, TAB, NL}
Digits == <<"0", "1", "2", "3", "4", "5", "6", "7", "8", "9">>
NoneV == <<"None">>
Absent == <<"ABSENT">>

\* Python truthiness of a str-or-None value (`if not fname`, `if scp_path`)
Truthy(s) == s # NoneV /\ s # <<>>

\* -------------------------------------------------------- str operations
\* "{:d}".format(n), n >= 0
RECURSIVE FormatD(_)
FormatD(n) == IF n < 10 THEN <<Digits[n + 1]>>
              ELSE FormatD(n \div 10) \o <<Digits[(n % 10) + 1]>>

DigitVal(c) == CHOOSE d \in 0..9 : Digits[d + 1] = c
IsDigit(c) == \E d \in 1..10 : Digits[d] = c

\* int(s) for a token s: [ok, val]; a token that is not a run of decimal
\* digits raises ValueError (signs and underscores are not in the alphabet)
RECURSIVE IntAcc(_, _, _)
IntAcc(s, i, acc) == IF i > Len(s) THEN acc
                     ELSE IntAcc(s, i + 1, acc * 10 + DigitVal(s[i]))
ParseInt(s) == IF Len(s) > 0 /\ \A i \in 1..Len(s) : IsDigit(s[i])
               THEN [ok |-> TRUE, val |-> IntAcc(s, 1, 0)]
               ELSE [ok |-> FALSE, val |-> 0]

\* s.strip().split(): the maximal runs of non-whitespace characters
RECURSIVE TokAcc(_, _, _, _)
TokAcc(s, i, cur, acc) ==
    IF i > Len(s) THEN (IF cur = <<>> THEN acc ELSE Append(acc, cur))
    ELSE IF s[i] \in Whitespace
         THEN TokAcc(s, i + 1, <<>>, IF cur = <<>> THEN acc ELSE Append(acc, cur))
         ELSE TokAcc(s, i + 1, Append(cur, s[i]), acc)
StripSplit(s) == TokAcc(s, 1, <<>>, <<>>)

\* s.split(sep): the pieces between separators, empty pieces kept
RECURSIVE SplitAcc(_, _, _, _, _)
SplitAcc(s, sep, i, cur, acc) ==
    IF i > Len(s) THEN Append(acc, cur)
    ELSE IF s[i] = sep
         THEN SplitAcc(s, sep, i + 1, <<>>, Append(acc, cur))
         ELSE SplitAcc(s, sep, i + 1, Append(cur, s[i]), acc)
Split(s, sep) == SplitAcc(s, sep, 1, <<>>, <<>>)

\* sep.join(parts)
RECURSIVE Join(_, _)
Join(parts, sep) ==
    IF Len(parts) = 0 THEN <<>>
    ELSE IF Len(parts) = 1 THEN parts[1]
    ELSE parts[1] \o <<sep>> \o Join(Tail(parts), sep)

\* `for raw_line in f`: the lines of a text, each with its newline; a last
\* line without newline is a line too
RECURSIVE LinesAcc(_, _, _, _)
LinesAcc(s, i, cur, acc) ==
    IF i > Len(s) THEN (IF cur = <<>> THEN acc ELSE Append(acc, cur))
    ELSE IF s[i] = NL
         THEN LinesAcc(s, i + 1, <<>>, Append(acc, Append(cur, NL)))
         ELSE LinesAcc(s, i + 1, Append(cur, s[i]), acc)
FileLines(s) == LinesAcc(s, 1, <<>>, <<>>)

\* os.path.abspath for paths without "." and ".." components
CWD == <<"/", "w">>
AbsPath(p) == IF p # <<>> /\ p[1] = "/" THEN p ELSE CWD \o <<"/">> \o p

IsPipe(fname) == fname[Len(fname)] = "|"
IsStd(fname) == fname = <<"-">>

\* ------------------------------------------------- payload codec (iobase)
\* A matrix is a sequence of elements; BadMat is a value write_common_mat
\* rejects (an array that is no float matrix).
BadMat == <<"BAD">>
\* io.write_token(fd, key)
TokenBytes(key) == key \o <<SP>>
\* io.write_binary_symbol(fd)
BinarySymbol == <<NUL, "B">>
\* io.write_common_mat(fd, mat): a type tag, the size, the elements
MatBytes(mat) == <<"M", Digits[Len(mat) + 1]>> \o mat

\* the cells of `bytes` from 0-based position pos, at most n of them: fd.read(n)
ReadN(bytes, pos, n) ==
    SubSeq(bytes, pos + 1, IF pos + n <= Len(bytes) THEN pos + n ELSE Len(bytes))

\* io.expect_binary(fd) at position pos
ExpectBinary(bytes, pos) == ReadN(bytes, pos, 2) = BinarySymbol

\* io.read_general_mat(fd) at position pos: [ok, val, pos]
ReadGeneralMat(bytes, pos) ==
    LET hdr == ReadN(bytes, pos, 2)
    IN  IF Len(hdr) = 2 /\ hdr[1] = "M" /\ IsDigit(hdr[2])
           /\ pos + 2 + DigitVal(hdr[2]) <= Len(bytes)
        THEN [ok |-> TRUE, val |-> ReadN(bytes, pos + 2, DigitVal(hdr[2])),
              pos |-> pos + 2 + DigitVal(hdr[2])]
        ELSE [ok |-> FALSE, val |-> <<>>, pos |-> pos]

\* io.read_key(fd) at position pos: the characters up to the next space or
\* the end of the stream; [key, pos]
RECURSIVE ReadKeyAcc(_, _, _)
ReadKeyAcc(bytes, pos, cur) ==
    IF pos >= Len(bytes) THEN [key |-> cur, pos |-> pos]
    ELSE IF bytes[pos + 1] = SP THEN [key |-> cur, pos |-> pos + 1]
    ELSE ReadKeyAcc(bytes, pos + 1, Append(cur, bytes[pos + 1]))
ReadKey(bytes, pos) == ReadKeyAcc(bytes, pos, <<>>)

\* one step of io.read_ark(fd): [kind, key, val, pos] with kind one of
\* "record", "end" (no key left), "error" (sentinel or payload malformed)
ReadArkStep(bytes, pos) ==
    LET k == ReadKey(bytes, pos)
        m == ReadGeneralMat(bytes, k.pos + 2)
    IN  IF k.key = <<>> THEN [kind |-> "end", key |-> <<>>, val |-> <<>>, pos |-> k.pos]
        ELSE IF ~ExpectBinary(bytes, k.pos) \/ ~m.ok
             THEN [kind |-> "error", key |-> k.key, val |-> <<>>, pos |-> k.pos]
             ELSE [kind |-> "record", key |-> k.key, val |-> m.val, pos |-> m.pos]

\* ------------------------------------------------------------------ state
VARIABLES
    ark_path,    \* Writer.ark_path
    scp_path,    \* Writer.scp_path (NoneV when absent or ignored)
    scp_arg,     \* the scp_path argument the Writer was constructed with
    fs,          \* the regular files: absolute path -> content, or Absent
    stdout,      \* what has been written to sys.stdout / sys.stdout.buffer
    fd,          \* the stream objects held: "ark" and "scp" are Writer.ark_file
                 \* and Writer.scp_file, "seq" the stream of a sequential
                 \* reader's iteration, "idx" the stream parse_scps reads
    pc,          \* where the main thread is
    exc,         \* the exception the last operation raised to its caller
    written,     \* the (key, matrix) of every write call that returned
    index_dict,  \* Reader.index_dict, in insertion order
    index_keys,  \* Reader.index_keys
    op,          \* the last Reader operation and what it returned
    it,          \* the generator of Reader.__iter__
    sq,          \* the generator of ArchiveReader.__iter__
    proc,        \* the subprocess of a pipe address
    pipebuf,     \* the bytes the subprocess has written to its standard output
    taken,       \* how many of them the main thread has read out of the pipe
    monitor,     \* the thread running background_command_waiter
    intr         \* the interrupt _thread.interrupt_main() posts to the main thread

vars == <<ark_path, scp_path, scp_arg, fs, stdout, fd, pc, exc, written, index_dict,
          index_keys, op, it, sq, proc, pipebuf, taken, monitor, intr>>

\* -------------------------------------------------------------- inputs
RegularArk == {<<"/", "k">>, <<"k">>, <<"/", "k", SP, "k">>}
ArkPaths == RegularArk \cup {<<"-">>, <<"c", "|">>}
ScpFile == <<"/", "s">>
ScpPaths == {NoneV, ScpFile, <<"-">>, <<"c", "|">>}
FilePaths == {AbsPath(p) : p \in RegularArk \cup {ScpFile}}
Keys == {<<"b">>, <<"a">>, <<"a", SP, "b">>, <<>>}
Mats == {<<>>, <<"x", "y">>}

\* ------------------------------------------------------- stream objects
Unset == [kind |-> "unset", path |-> <<>>, mode |-> "", closed |-> FALSE]
Handle(kind, path, mode) ==
    [kind |-> kind, path |-> path, mode |-> mode, closed |-> FALSE]

\* (late: whether the subprocess exited only after the iteration over its
\* output had ended)
NoProc == [state |-> "none", todo |-> <<>>, rc |-> 0, late |-> FALSE]

\* pipe_fopen(command, mode, background) up to the return of p.stdout:
\* [exc, kind, path, spawn, background]
\* (variant: the mode is checked only after subprocess.Popen)
PipeFopenBadOrder(mode, background) ==
    IF mode \notin {"rb", "r"}
    THEN [exc |-> "RuntimeError", kind |-> "none", path |-> <<>>,
          spawn |-> TRUE, background |-> background]
    ELSE [exc |-> "none", kind |-> "pipe", path |-> <<>>,
          spawn |-> TRUE, background |-> background]
PipeFopen(mode, background) ==
    IF mode \notin {"rb", "r"}
    THEN [exc |-> "RuntimeError", kind |-> "none", path |-> <<>>,
          spawn |-> FALSE, background |-> FALSE]
    ELSE [exc |-> "none", kind |-> "pipe", path |-> <<>>,
          spawn |-> TRUE, background |-> background]

\* _fopen(fname, mode) with the files as they are: [exc, kind, path, spawn,
\* background]
Fopen(fname, mode, files) ==
    LET r(e, k, p) == [exc |-> e, kind |-> k, path |-> p,
                       spawn |-> FALSE, background |-> FALSE]
    IN  IF mode \notin {"w", "r", "wb", "rb"} THEN r("ValueError", "none", <<>>)
        ELSE IF ~Truthy(fname) THEN r("none", "none", <<>>)
        ELSE IF fname = <<"-">>
             THEN (IF mode \in {"w", "wb"} THEN r("none", "stdout", <<>>)
                   ELSE r("none", "stdin", <<>>))
        ELSE IF fname[Len(fname)] = "|" THEN PipeFopen(mode, mode = "rb")
        ELSE IF mode \in {"r", "rb"} /\ files[AbsPath(fname)] = Absent
             THEN r("FileNotFoundError", "none", <<>>)
        ELSE r("none", "file", AbsPath(fname))

\* open(fname, "w"/"wb") creates or truncates the file
Truncate(files, o) ==
    IF o.exc = "none" /\ o.kind = "file" THEN [files EXCEPT ![o.path] = <<>>]
    ELSE files

\* _fclose(fname, fd): whether fd.close() is called
\* (variant: every stream object is closed, whatever its address)
FcloseAlways(fname, h) == h.kind \notin {"none", "unset"}
FcloseCloses(fname, h) ==
    fname # <<"-">> /\ h.kind \notin {"none", "unset"} /\ fname[Len(fname)] # "|"
\* _fclose(fname, fd): whether evaluating its condition raises; fname[-1] is
\* reached when fname is not "-" and fd is a stream object, and fails on None
\* and on the empty string
FcloseRaises(fname, h) ==
    fname # <<"-">> /\ h.kind \notin {"none", "unset"} /\ ~Truthy(fname)
Fclose(fname, h) == IF FcloseCloses(fname, h) THEN [h EXCEPT !.closed = TRUE] ELSE h

\* ----------------------------------------------------------------- Writer
\* Writer.__init__(ark_path, scp_path): the value of self.scp_path
\* (variant: the index address is kept)
WriterScpPathKeep(a, s) == s
WriterScpPath(a, s) == IF a = <<"-">> /\ Truthy(s) THEN NoneV ELSE s

\* the streams a write reaches: st = [fs, out]
Put(st, h, data) ==
    IF h.kind = "file" THEN [st EXCEPT !.fs[h.path] = @ \o data]
    ELSE IF h.kind = "stdout" THEN [st EXCEPT !.out = @ \o data]
    ELSE st
\* fd.tell() of a file opened for writing by this scope
Tell(st, h) == Len(st.fs[h.path])

\* the line ArchiveWriter.write appends to the index
IndexLine(key, apath, offset) ==
    key \o <<TAB>> \o AbsPath(apath) \o <<":">> \o FormatD(offset) \o <<NL>>

\* ArchiveWriter.write(key, matrix) on the streams st: [st, exc]
\* (variant: tell() is called after the binary symbol is written)
ArchiveWriteLateTell(st, arkh, scph, apath, key, mat) ==
    LET s1 == Put(st, arkh, TokenBytes(key))
        s2 == Put(s1, arkh, BinarySymbol)
        offset == IF apath # <<"-">> THEN Tell(s2, arkh) ELSE -1
        s3 == Put(s2, arkh, MatBytes(mat))
    IN  IF arkh.kind = "none" THEN [st |-> st, exc |-> "AttributeError"]
        ELSE IF mat = BadMat THEN [st |-> s2, exc |-> "TypeError"]
        ELSE IF scph.kind = "none" THEN [st |-> s3, exc |-> "none"]
        ELSE IF offset < 0 THEN [st |-> s3, exc |-> "UnboundLocalError"]
        ELSE [st |-> Put(s3, scph, IndexLine(key, apath, offset)), exc |-> "none"]
\* (variant: tell() is called before the key token is written)
ArchiveWriteEarlyTell(st, arkh, scph, apath, key, mat) ==
    LET offset == IF apath # <<"-">> THEN Tell(st, arkh) ELSE -1
        s1 == Put(st, arkh, TokenBytes(key))
        s2 == Put(s1, arkh, BinarySymbol)
        s3 == Put(s2, arkh, MatBytes(mat))
    IN  IF arkh.kind = "none" THEN [st |-> st, exc |-> "AttributeError"]
        ELSE IF mat = BadMat THEN [st |-> s2, exc |-> "TypeError"]
        ELSE IF scph.kind = "none" THEN [st |-> s3, exc |-> "none"]
        ELSE IF offset < 0 THEN [st |-> s3, exc |-> "UnboundLocalError"]
        ELSE [st |-> Put(s3, scph, IndexLine(key, apath, offset)), exc |-> "none"]
\* (variant: the binary symbol is not written)
ArchiveWriteNoSymbol(st, arkh, scph, apath, key, mat) ==
    LET s1 == Put(st, arkh, TokenBytes(key))
        offset == IF apath # <<"-">> THEN Tell(s1, arkh) ELSE -1
        s3 == Put(s1, arkh, MatBytes(mat))
    IN  IF arkh.kind = "none" THEN [st |-> st, exc |-> "AttributeError"]
        ELSE IF mat = BadMat THEN [st |-> s1, exc |-> "TypeError"]
        ELSE IF scph.kind = "none" THEN [st |-> s3, exc |-> "none"]
        ELSE IF offset < 0 THEN [st |-> s3, exc |-> "UnboundLocalError"]
        ELSE [st |-> Put(s3, scph, IndexLine(key, apath, offset)), exc |-> "none"]
ArchiveWrite(st, arkh, scph, apath, key, mat) ==
    LET s1 == Put(st, arkh, TokenBytes(key))
        offset == IF apath # <<"-">> THEN Tell(s1, arkh) ELSE -1
        s2 == Put(s1, arkh, BinarySymbol)
        s3 == Put(s2, arkh, MatBytes(mat))
    IN  IF arkh.kind = "none" THEN [st |-> st, exc |-> "AttributeError"]
        ELSE IF mat = BadMat THEN [st |-> s2, exc |-> "TypeError"]
        ELSE IF scph.kind = "none" THEN [st |-> s3, exc |-> "none"]
        ELSE IF offset < 0 THEN [st |-> s3, exc |-> "UnboundLocalError"]
        ELSE [st |-> Put(s3, scph, IndexLine(key, apath, offset)), exc |-> "none"]

\* what Writer.__enter__ leaves behind: [exc, ark, scp, fs, spawn]
EnterResult(a, s, files) ==
    LET oa == Fopen(a, "wb", files)
        f1 == Truncate(files, oa)
        os == Fopen(s, "w", f1)
        f2 == Truncate(f1, os)
    IN  IF oa.exc # "none"
        THEN [exc |-> oa.exc, ark |-> Unset, scp |-> Unset, fs |-> files,
              spawn |-> oa.spawn]
        ELSE IF os.exc # "none"
        THEN [exc |-> os.exc, ark |-> Handle(oa.kind, oa.path, "wb"), scp |-> Unset,
              fs |-> f1, spawn |-> oa.spawn \/ os.spawn]
        ELSE [exc |-> "none", ark |-> Handle(oa.kind, oa.path, "wb"),
              scp |-> Handle(os.kind, os.path, "w"), fs |-> f2,
              spawn |-> oa.spawn \/ os.spawn]

\* what Writer.__exit__ does to the two streams
\* (variant: only the archive stream is closed)
ExitResultArkOnly(a, s, f) == [f EXCEPT !["ark"] = Fclose(a, f["ark"])]
ExitResult(a, s, f) ==
    [f EXCEPT !["ark"] = Fclose(a, f["ark"]), !["scp"] = Fclose(s, f["scp"])]

\* a subprocess just spawned by subprocess.Popen; it will write `out` and
\* exit with status rc
Spawned(out, rc) == [state |-> "running", todo |-> out, rc |-> rc, late |-> FALSE]

readerVars == <<index_dict, index_keys, op, it>>
pipeVars == <<proc, pipebuf, taken, monitor, intr>>

\* `with ArchiveWriter(ark, scp) as writer:` -- Writer.__enter__
Enter ==
    /\ pc = "new"
    /\ LET r == EnterResult(ark_path, scp_path, fs)
       IN  /\ fs' = r.fs
           /\ fd' = [fd EXCEPT !["ark"] = r.ark, !["scp"] = r.scp]
           /\ exc' = r.exc
           /\ pc' = IF r.exc = "none" THEN "scope" ELSE "enterFailed"
           /\ proc' = IF r.spawn THEN Spawned(<<>>, 0) ELSE proc
    /\ UNCHANGED <<ark_path, scp_path, scp_arg, stdout, written, readerVars, sq,
                   pipebuf, taken, monitor, intr>>

\* writer.write(key, matrix) inside the scope
Write(key, mat) ==
    /\ pc = "scope"
    /\ Len(written) < MaxWrites
    /\ LET r == ArchiveWrite([fs |-> fs, out |-> stdout], fd["ark"], fd["scp"],
                             ark_path, key, mat)
       IN  /\ fs' = r.st.fs
           /\ stdout' = r.st.out
           /\ exc' = r.exc
           /\ pc' = IF r.exc = "none" THEN "scope" ELSE "raising"
           /\ written' = IF r.exc = "none"
                         THEN Append(written, [key |-> key, val |-> mat])
                         ELSE written
    /\ UNCHANGED <<ark_path, scp_path, scp_arg, fd, readerVars, sq, pipeVars>>

\* leaving the scope, normally or with the exception a write raised:
\* Writer.__exit__
Exit ==
    /\ pc \in {"scope", "raising"}
    /\ fd' = ExitResult(ark_path, scp_path, fd)
    /\ pc' = IF pc = "scope" THEN "closed" ELSE "closedErr"
    /\ UNCHANGED <<ark_path, scp_path, scp_arg, fs, stdout, exc, written, readerVars, sq,
                   pipeVars>>

\* ----------------------------------------------------------- index parser
\* ScriptReader's addr_processor(addr): [exc, addr]
ScriptAddr(addr) ==
    LET t == Split(addr, ":")
        n == ParseInt(t[Len(t)])
    IN  IF Len(t) = 1 THEN [exc |-> "ValueError:address", addr |-> <<>>]
        ELSE IF ~n.ok THEN [exc |-> "ValueError:int", addr |-> <<>>]
        ELSE [exc |-> "none",
              addr |-> [path |-> Join(SubSeq(t, 1, Len(t) - 1), ":"),
                        offset |-> n.val]]
\* the default addr_processor, lambda x: x
IdentityAddr(addr) == [exc |-> "none", addr |-> [path |-> addr, offset |-> 0]]
Decode(decoder, addr) ==
    IF decoder = "script" THEN ScriptAddr(addr) ELSE IdentityAddr(addr)

DictKeys(d) == {d[i].key : i \in 1..Len(d)}
DictGet(d, k) == d[CHOOSE i \in 1..Len(d) : d[i].key = k].addr

\* the loop of parse_scps over the lines of the opened script, from line i
\* on with scp_dict = d: [exc, line, dict]; dict is <<>> when parsing raises
\* (variant: a repeated key overwrites the earlier entry)
RECURSIVE ParseLinesOverwrite(_, _, _, _)
ParseLinesOverwrite(lines, i, d, decoder) ==
    IF i > Len(lines) THEN [exc |-> "none", line |-> 0, dict |-> d]
    ELSE LET tok == StripSplit(lines[i])
             a == Decode(decoder, tok[2])
         IN  IF Len(tok) # 2
             THEN [exc |-> "RuntimeError:format", line |-> i, dict |-> <<>>]
             ELSE IF a.exc # "none" THEN [exc |-> a.exc, line |-> i, dict |-> <<>>]
             ELSE IF tok[1] \in DictKeys(d)
             THEN ParseLinesOverwrite(lines, i + 1,
                      [j \in 1..Len(d) |-> IF d[j].key = tok[1]
                                           THEN [key |-> tok[1], addr |-> a.addr]
                                           ELSE d[j]], decoder)
             ELSE ParseLinesOverwrite(lines, i + 1,
                      Append(d, [key |-> tok[1], addr |-> a.addr]), decoder)
\* (variant: lines without tokens are skipped)
RECURSIVE ParseLinesSkipEmpty(_, _, _, _)
ParseLinesSkipEmpty(lines, i, d, decoder) ==
    IF i > Len(lines) THEN [exc |-> "none", line |-> 0, dict |-> d]
    ELSE LET tok == StripSplit(lines[i])
             a == Decode(decoder, tok[2])
         IN  IF Len(tok) = 0 THEN ParseLinesSkipEmpty(lines, i + 1, d, decoder)
             ELSE IF Len(tok) # 2
             THEN [exc |-> "RuntimeError:format", line |-> i, dict |-> <<>>]
             ELSE IF tok[1] \in DictKeys(d)
             THEN [exc |-> "ValueError:duplicate", line |-> i, dict |-> <<>>]
             ELSE IF a.exc # "none" THEN [exc |-> a.exc, line |-> i, dict |-> <<>>]
             ELSE ParseLinesSkipEmpty(lines, i + 1,
                      Append(d, [key |-> tok[1], addr |-> a.addr]), decoder)
RECURSIVE ParseLines(_, _, _, _)
ParseLines(lines, i, d, decoder) ==
    IF i > Len(lines) THEN [exc |-> "none", line |-> 0, dict |-> d]
    ELSE LET tok == StripSplit(lines[i])
             a == Decode(decoder, tok[2])
         IN  IF Len(tok) # 2
             THEN [exc |-> "RuntimeError:format", line |-> i, dict |-> <<>>]
             ELSE IF tok[1] \in DictKeys(d)
             THEN [exc |-> "ValueError:duplicate", line |-> i, dict |-> <<>>]
             ELSE IF a.exc # "none" THEN [exc |-> a.exc, line |-> i, dict |-> <<>>]
             ELSE ParseLines(lines, i + 1,
                      Append(d, [key |-> tok[1], addr |-> a.addr]), decoder)

\* parse_scps on the text of an opened script
ParseScps(text, decoder) == ParseLines(FileLines(text), 1, <<>>, decoder)

\* the stream of parse_scps when its `with ext_open(scp_path, "r")` block is
\* left with the outcome r of the line loop: ext_open.__exit__ runs whether
\* the loop returned or raised
\* (variant: the stream is closed only when the loop returned)
ScpExitOnReturn(fname, h, r) == IF r.exc = "none" THEN Fclose(fname, h) ELSE h
ScpExit(fname, h, r) == Fclose(fname, h)

\* Reader.__init__: self.index_keys = list(self.index_dict.keys())
KeysOf(d) == [i \in 1..Len(d) |-> d[i].key]

\* ----------------------------------------------------------------- Reader
FileAt(files, path) ==
    IF AbsPath(path) \in DOMAIN files THEN files[AbsPath(path)] ELSE Absent

\* ScriptReader._load(key): [exc, val]
ScriptLoad(d, key, files) ==
    LET a == DictGet(d, key)
        bytes == FileAt(files, a.path)
        m == ReadGeneralMat(bytes, a.offset + 2)
    IN  IF bytes = Absent THEN [exc |-> "FileNotFoundError", val |-> <<>>]
        ELSE IF ~ExpectBinary(bytes, a.offset)
        THEN [exc |-> "RuntimeError:binary", val |-> <<>>]
        ELSE IF ~m.ok THEN [exc |-> "RuntimeError:mat", val |-> <<>>]
        ELSE [exc |-> "none", val |-> m.val]

NoOp == [name |-> "none", argI |-> 0, argK |-> <<>>, exc |-> "none", n |-> 0,
         b |-> FALSE, key |-> <<>>, val |-> <<>>, loads |-> 0]

\* Reader.__len__
\* (variant: one less than the number of keys)
ReaderLenKeys(d, keys) == Len(keys) - 1
ReaderLen(d, keys) == Len(d)
\* Reader.__contains__(key)
ReaderContains(d, key) == key \in DictKeys(d)

\* Reader.__getitem__(index) for an int index: [exc, key, val, loads]
\* (variant: the bound check is index > num_utts)
GetIntOffByOne(d, keys, index, files) ==
    IF index > Len(keys) \/ index < 0
    THEN [exc |-> "KeyError:range", key |-> <<>>, val |-> <<>>, loads |-> 0]
    ELSE IF index = Len(keys)
    THEN [exc |-> "IndexError", key |-> <<>>, val |-> <<>>, loads |-> 0]
    ELSE LET k == keys[index + 1]
             l == ScriptLoad(d, k, files)
         IN  [exc |-> l.exc, key |-> k, val |-> l.val, loads |-> 1]
GetInt(d, keys, index, files) ==
    IF index >= Len(keys) \/ index < 0
    THEN [exc |-> "KeyError:range", key |-> <<>>, val |-> <<>>, loads |-> 0]
    ELSE LET k == keys[index + 1]
         IN  IF k \notin DictKeys(d)
             THEN [exc |-> "KeyError:missing", key |-> k, val |-> <<>>, loads |-> 0]
             ELSE LET l == ScriptLoad(d, k, files)
                  IN  [exc |-> l.exc, key |-> k, val |-> l.val, loads |-> 1]
\* Reader.__getitem__(index) for a str index
\* (variant: an absent key yields an empty value, as dict.get would)
GetStrDefault(d, keys, index, files) ==
    IF index \notin DictKeys(d)
    THEN [exc |-> "none", key |-> index, val |-> <<>>, loads |-> 0]
    ELSE LET l == ScriptLoad(d, index, files)
         IN  [exc |-> l.exc, key |-> index, val |-> l.val, loads |-> 1]
GetStr(d, keys, index, files) ==
    IF index \notin DictKeys(d)
    THEN [exc |-> "KeyError:missing", key |-> index, val |-> <<>>, loads |-> 0]
    ELSE LET l == ScriptLoad(d, index, files)
         IN  [exc |-> l.exc, key |-> index, val |-> l.val, loads |-> 1]

NoIter == [state |-> "none", pos |-> 0, yielded |-> <<>>, loads |-> 0,
           exc |-> "none", after |-> "none"]
\* a call of Reader.__iter__: a new generator, its body not yet started
\* (after: whether the generator it replaces, g, was left partly consumed)
\* (variant: the new generator goes on where the replaced one stood)
NewIterResume(g) ==
    [g EXCEPT !.state = "active", !.yielded = <<>>, !.loads = 0, !.exc = "none",
              !.after = IF g.state \in {"active", "abandoned"} /\ g.pos > 0
                        THEN "partial" ELSE "none"]
NewIter(g) ==
    [state |-> "active", pos |-> 0, yielded |-> <<>>, loads |-> 0, exc |-> "none",
     after |-> IF g.state \in {"active", "abandoned"} /\ g.pos > 0
               THEN "partial" ELSE "none"]
\* next() on the generator g of Reader.__iter__: [g, exc]
IterStep(g, d, keys, files) ==
    IF g.pos >= Len(keys)
    THEN [g |-> [g EXCEPT !.state = "done"], exc |-> "none"]
    ELSE LET k == keys[g.pos + 1]
             l == ScriptLoad(d, k, files)
         IN  IF l.exc # "none"
             THEN [g |-> [g EXCEPT !.state = "failed", !.loads = @ + 1,
                             !.exc = l.exc],
                   exc |-> l.exc]
             ELSE [g |-> [g EXCEPT !.pos = @ + 1, !.loads = @ + 1,
                             !.yielded = Append(@, [key |-> k, val |-> l.val])],
                   exc |-> "none"]

\* ScriptReader(ark_scp) on a regular file: parse_scps inside ext_open, then
\* Reader.__init__
NewScriptReader(fname) ==
    /\ pc \in {"closed", "closedErr", "start"}
    /\ Truthy(fname) /\ ~IsStd(fname) /\ ~IsPipe(fname)
    /\ LET o == Fopen(fname, "r", fs)
           r == ParseScps(fs[o.path], "script")
       IN  IF o.exc # "none"
           THEN /\ exc' = o.exc
                /\ pc' = "readerFailed"
                /\ op' = [NoOp EXCEPT !.name = "parse", !.exc = o.exc]
                /\ UNCHANGED <<fd, index_dict, index_keys>>
           ELSE /\ fd' = [fd EXCEPT !["idx"] =
                                  ScpExit(fname, Handle(o.kind, o.path, "r"), r)]
                /\ exc' = r.exc
                /\ op' = [NoOp EXCEPT !.name = "parse", !.exc = r.exc, !.n = r.line]
                /\ pc' = IF r.exc = "none" THEN "reader" ELSE "readerFailed"
                /\ index_dict' = r.dict
                /\ index_keys' = KeysOf(r.dict)
    /\ UNCHANGED <<ark_path, scp_path, scp_arg, fs, stdout, written, it, sq, pipeVars>>

idle == pc = "reader" /\ it.state # "active"
readerFrame == <<ark_path, scp_path, scp_arg, fs, stdout, fd, pc, written, index_dict,
                 index_keys, sq, pipeVars>>

\* len(reader)
LenOp ==
    /\ idle
    /\ op' = [NoOp EXCEPT !.name = "len", !.n = ReaderLen(index_dict, index_keys)]
    /\ exc' = "none"
    /\ UNCHANGED <<readerFrame, it>>

\* key in reader
ContainsOp(key) ==
    /\ idle
    /\ op' = [NoOp EXCEPT !.name = "contains", !.argK = key,
                          !.b = ReaderContains(index_dict, key)]
    /\ exc' = "none"
    /\ UNCHANGED <<readerFrame, it>>

\* reader[index] with an int index
GetIntOp(index) ==
    /\ idle
    /\ LET r == GetInt(index_dict, index_keys, index, fs)
       IN  /\ op' = [NoOp EXCEPT !.name = "getint", !.argI = index, !.exc = r.exc,
                                 !.key = r.key, !.val = r.val, !.loads = r.loads]
           /\ exc' = r.exc
    /\ UNCHANGED <<readerFrame, it>>

\* reader[index] with a str index
GetStrOp(index) ==
    /\ idle
    /\ LET r == GetStr(index_dict, index_keys, index, fs)
       IN  /\ op' = [NoOp EXCEPT !.name = "getstr", !.argK = index, !.exc = r.exc,
                                 !.key = r.key, !.val = r.val, !.loads = r.loads]
           /\ exc' = r.exc
    /\ UNCHANGED <<readerFrame, it>>

\* iter(reader): a call of Reader.__iter__
IterStart ==
    /\ pc = "reader"
    /\ it' = NewIter(it)
    /\ op' = NoOp
    /\ exc' = "none"
    /\ UNCHANGED readerFrame

\* next() on the generator
IterNext ==
    /\ pc = "reader" /\ it.state = "active"
    /\ LET r == IterStep(it, index_dict, index_keys, fs)
       IN  it' = r.g /\ exc' = r.exc
    /\ UNCHANGED <<readerFrame, op>>

\* the consumer leaves the loop early and drops the generator
IterAbandon ==
    /\ pc = "reader" /\ it.state = "active"
    /\ it' = [it EXCEPT !.state = "abandoned"]
    /\ UNCHANGED <<readerFrame, op, exc>>

\* ------------------------------------------------------ sequential reader
NoSeq == [state |-> "none", src |-> <<>>, pos |-> 0, yielded |-> <<>>]

\* the bytes the stream h has delivered or can deliver without blocking, and
\* whether its end is known
StreamBytes(h) == IF h.kind = "file" THEN fs[h.path] ELSE SubSeq(pipebuf, 1, taken)
StreamEnded(h) ==
    h.kind = "file" \/ (proc.state = "exited" /\ taken = Len(pipebuf))
\* whether one step of io.read_ark can finish without blocking on the stream
StepReady(h, pos) ==
    StreamEnded(h) \/ ReadArkStep(StreamBytes(h), pos).kind = "record"

\* one step of `for key, mat in io.read_ark(fd): yield key, mat` inside
\* `with ext_open(...) as fd`, on the generator g reading h: [g, exc, h]
\* (variant: a decode error leaves the `with` block without its __exit__)
SeqStepLeakOnError(g, h, bytes) ==
    LET r == ReadArkStep(bytes, g.pos)
    IN  IF r.kind = "end"
        THEN [g |-> [g EXCEPT !.state = "done"], exc |-> "none",
              h |-> Fclose(g.src, h)]
        ELSE IF r.kind = "error"
        THEN [g |-> [g EXCEPT !.state = "failed"], exc |-> "RuntimeError:codec",
              h |-> h]
        ELSE [g |-> [g EXCEPT !.state = "open", !.pos = r.pos,
                        !.yielded = Append(@, [key |-> r.key, val |-> r.val])],
              exc |-> "none", h |-> h]
SeqStep(g, h, bytes) ==
    LET r == ReadArkStep(bytes, g.pos)
    IN  IF r.kind = "end"
        THEN [g |-> [g EXCEPT !.state = "done"], exc |-> "none",
              h |-> Fclose(g.src, h)]
        ELSE IF r.kind = "error"
        THEN [g |-> [g EXCEPT !.state = "failed"], exc |-> "RuntimeError:codec",
              h |-> Fclose(g.src, h)]
        ELSE [g |-> [g EXCEPT !.state = "open", !.pos = r.pos,
                        !.yielded = Append(@, [key |-> r.key, val |-> r.val])],
              exc |-> "none", h |-> h]

\* iter(ArchiveReader(ark_or_pipe)): a new generator, its body not yet started
SeqStart(src) ==
    /\ pc \in {"closed", "start"}
    /\ Truthy(src) /\ ~IsStd(src)
    /\ sq' = [NoSeq EXCEPT !.state = "created", !.src = src]
    /\ pc' = "seq"
    /\ UNCHANGED <<ark_path, scp_path, scp_arg, fs, stdout, fd, exc, written, readerVars,
                   pipeVars>>

\* next() on the generator of a file archive: the first call opens the stream
SeqNext ==
    /\ pc = "seq" /\ sq.state \in {"created", "open"}
    /\ ~IsPipe(sq.src)
    /\ LET o == Fopen(sq.src, "rb", fs)
           h == IF sq.state = "created" THEN Handle(o.kind, o.path, "rb") ELSE fd["seq"]
           r == SeqStep(sq, h, StreamBytes(h))
       IN  IF sq.state = "created" /\ o.exc # "none"
           THEN /\ sq' = [sq EXCEPT !.state = "failed"]
                /\ exc' = o.exc
                /\ fd' = fd
           ELSE /\ sq' = r.g
                /\ exc' = r.exc
                /\ fd' = [fd EXCEPT !["seq"] = r.h]
    /\ UNCHANGED <<ark_path, scp_path, scp_arg, fs, stdout, pc, written, readerVars,
                   pipeVars>>

\* the consumer leaves the loop early and drops the generator: the generator
\* is closed at its yield and the `with` block exits
SeqAbandon ==
    /\ pc = "seq" /\ sq.state \in {"created", "open"}
    /\ sq' = [sq EXCEPT !.state = "abandoned"]
    /\ fd' = IF sq.state = "open"
             THEN [fd EXCEPT !["seq"] = Fclose(sq.src, fd["seq"])]
             ELSE fd
    /\ UNCHANGED <<ark_path, scp_path, scp_arg, fs, stdout, pc, exc, written, readerVars,
                   pipeVars>>

\* ------------------------------------------ write, then read back (Spec)
NoFd == [s \in {"ark", "scp", "seq", "idx"} |-> Unset]
NoIntr == [state |-> "none", at |-> "none"]

Init ==
    /\ ark_path \in ArkPaths
    /\ scp_arg \in ScpPaths
    /\ scp_path = WriterScpPath(ark_path, scp_arg)
    /\ fs = [p \in FilePaths |-> Absent]
    /\ stdout = <<>>
    /\ fd = NoFd
    /\ pc = "new"
    /\ exc = "none"
    /\ written = <<>>
    /\ index_dict = <<>>
    /\ index_keys = <<>>
    /\ op = NoOp
    /\ it = NoIter
    /\ sq = NoSeq
    /\ proc = NoProc
    /\ pipebuf = <<>>
    /\ taken = 0
    /\ monitor = "none"
    /\ intr = NoIntr

Next ==
    \/ Enter
    \/ \E k \in Keys, m \in Mats \cup {BadMat} : Write(k, m)
    \/ Exit
    \/ NewScriptReader(scp_path)
    \/ LenOp
    \/ \E k \in Keys : ContainsOp(k)
    \/ \E i \in -1..(MaxWrites + 1) : GetIntOp(i)
    \/ \E k \in Keys : GetStrOp(k)
    \/ IterStart
    \/ IterNext
    \/ IterAbandon
    \/ SeqStart(ark_path)
    \/ SeqNext
    \/ SeqAbandon

Spec == Init /\ [][Next]_vars

\* ----------------------------- a reader over an existing index (SpecIndex)
\* the lines an index file found on disk is made of
IndexLineSet ==
    { <<"a", SP, "/", "k", ":", "2", NL>>,
      <<"b", TAB, "/", "k", ":", "9", NL>>,
      <<"a", SP, "/", "k", ":", "0", NL>>,
      <<NL>>,
      <<"a", NL>>,
      <<"a", SP, "b", SP, "/", "k", ":", "2", NL>>,
      <<"b", SP, "/", "k", NL>> }
RECURSIVE IndexTexts(_)
IndexTexts(n) ==
    IF n = 0 THEN {<<>>}
    ELSE IndexTexts(n - 1)
         \cup {t \o l : t \in IndexTexts(n - 1), l \in IndexLineSet}
\* the archive found on disk: one record, key "a"
DiskArk == <<"/", "k">>
DiskArkBytes == TokenBytes(<<"a">>) \o BinarySymbol \o MatBytes(<<"x">>)

InitIndex ==
    /\ ark_path = DiskArk
    /\ scp_path = ScpFile
    /\ scp_arg = ScpFile
    /\ \E t \in IndexTexts(MaxLines) :
          fs = [p \in FilePaths |-> IF p = ScpFile THEN t
                                    ELSE IF p = DiskArk THEN DiskArkBytes
                                    ELSE Absent]
    /\ stdout = <<>>
    /\ fd = NoFd
    /\ pc = "start"
    /\ exc = "none"
    /\ written = <<>>
    /\ index_dict = <<>>
    /\ index_keys = <<>>
    /\ op = NoOp
    /\ it = NoIter
    /\ sq = NoSeq
    /\ proc = NoProc
    /\ pipebuf = <<>>
    /\ taken = 0
    /\ monitor = "none"
    /\ intr = NoIntr

NextIndex ==
    \/ NewScriptReader(scp_path)
    \/ LenOp
    \/ \E k \in Keys : ContainsOp(k)
    \/ \E i \in -1..(MaxLines + 1) : GetIntOp(i)
    \/ \E k \in Keys : GetStrOp(k)
    \/ IterStart
    \/ IterNext
    \/ IterAbandon

SpecIndex == InitIndex /\ [][NextIndex]_vars

\* ------------------------------- reading an archive from a pipe (SpecPipe)
PipeAddr == <<"c", "|">>
\* what the command may write: whole records, the last one possibly cut short
PipeRecord == TokenBytes(<<"a">>) \o BinarySymbol \o MatBytes(<<"x">>)
RECURSIVE Records(_)
Records(n) == IF n = 0 THEN <<>> ELSE Records(n - 1) \o PipeRecord
PipeOuts ==
    {Records(n) : n \in 0..MaxPipeRecs}
    \cup {SubSeq(Records(n), 1, Len(Records(n)) - 2) : n \in 1..MaxPipeRecs}

\* background_command_waiter after p.wait(): whether it warns and calls
\* _thread.interrupt_main()
\* (variant: the test of the return code is inverted)
WaiterInterruptsOnZero(rc) == rc = 0
WaiterInterrupts(rc) == rc # 0

\* next() on the generator of a pipe archive, up to the read that waits for
\* the command's output: the first call opens the stream (pipe_fopen spawns
\* the command and starts the monitor thread)
PipeSeqNext ==
    /\ pc = "seq" /\ sq.state \in {"created", "open"}
    /\ IsPipe(sq.src)
    /\ LET o == Fopen(sq.src, "rb", fs)
       IN  IF sq.state = "open"
           THEN /\ sq' = [sq EXCEPT !.state = "reading"]
                /\ UNCHANGED <<fd, exc, proc, monitor>>
           ELSE IF o.exc # "none"
           THEN /\ sq' = [sq EXCEPT !.state = "failed"]
                /\ exc' = o.exc
                /\ proc' = IF o.spawn THEN Spawned(<<>>, 0) ELSE proc
                /\ UNCHANGED <<fd, monitor>>
           ELSE /\ sq' = [sq EXCEPT !.state = "reading"]
                /\ fd' = [fd EXCEPT !["seq"] = Handle(o.kind, o.path, "rb")]
                /\ \E out \in PipeOuts, rc \in {0, 1} : proc' = Spawned(out, rc)
                /\ monitor' = IF o.background THEN "waiting" ELSE monitor
                /\ exc' = "none"
    /\ UNCHANGED <<ark_path, scp_path, scp_arg, fs, stdout, pc, written, readerVars,
                   pipebuf, taken, intr>>

\* the read returns: one step of io.read_ark on what the pipe holds
SeqRead ==
    /\ pc = "seq" /\ sq.state = "reading"
    /\ StepReady(fd["seq"], sq.pos)
    /\ LET r == SeqStep(sq, fd["seq"], StreamBytes(fd["seq"]))
       IN  /\ sq' = r.g
           /\ exc' = r.exc
           /\ fd' = [fd EXCEPT !["seq"] = r.h]
    /\ UNCHANGED <<ark_path, scp_path, scp_arg, fs, stdout, pc, written, readerVars,
                   pipeVars>>

\* the command writes one byte to its standard output; the write waits while
\* the pipe is full
ProcWrite ==
    /\ proc.state = "running" /\ proc.todo # <<>>
    /\ Len(pipebuf) - taken < PipeCap
    /\ pipebuf' = Append(pipebuf, Head(proc.todo))
    /\ proc' = [proc EXCEPT !.todo = Tail(@)]
    /\ UNCHANGED <<ark_path, scp_path, scp_arg, fs, stdout, fd, pc, exc, written,
                   readerVars, sq, taken, monitor, intr>>

\* the command exits with its status; its standard output is closed
ProcExit ==
    /\ proc.state = "running" /\ proc.todo = <<>>
    /\ proc' = [proc EXCEPT !.state = "exited",
                            !.late = sq.state \in {"done", "failed", "abandoned"}]
    /\ UNCHANGED <<ark_path, scp_path, scp_arg, fs, stdout, fd, pc, exc, written,
                   readerVars, sq, pipebuf, taken, monitor, intr>>

\* background_command_waiter in the monitor thread: p.wait() returns, and on a
\* non-zero status it warns and calls _thread.interrupt_main(); a daemon
\* thread, it does not outlive the main thread
MonitorWake ==
    /\ monitor = "waiting" /\ proc.state = "exited"
    /\ pc # "exit"
    /\ monitor' = "done"
    /\ intr' = IF WaiterInterrupts(proc.rc) /\ intr.state = "none"
               THEN [intr EXCEPT !.state = "pending"]
               ELSE intr
    /\ UNCHANGED <<ark_path, scp_path, scp_arg, fs, stdout, fd, pc, exc, written,
                   readerVars, sq, proc, pipebuf, taken>>

\* the main thread is still inside the iteration: in next(), or in the body of
\* the consuming loop
Iterating == pc = "seq" /\ sq.state \in {"created", "reading", "open"}

\* the posted interrupt is raised as KeyboardInterrupt in the main thread,
\* wherever it is; an iteration in progress is left through its `with` block
Deliver ==
    /\ intr.state = "pending"
    /\ pc \notin {"exit", "interrupted"}
    /\ intr' = [state |-> "raised",
                at |-> IF Iterating THEN "iteration" ELSE "after"]
    /\ exc' = "KeyboardInterrupt"
    /\ pc' = "interrupted"
    /\ sq' = IF Iterating THEN [sq EXCEPT !.state = "interrupted"] ELSE sq
    /\ fd' = IF Iterating /\ sq.state # "created"
             THEN [fd EXCEPT !["seq"] = Fclose(sq.src, fd["seq"])]
             ELSE fd
    /\ UNCHANGED <<ark_path, scp_path, scp_arg, fs, stdout, written, readerVars, proc,
                   pipebuf, taken, monitor>>

\* a read of the main thread, waiting in io.read_ark or in the line loop of
\* parse_scps, takes what the pipe holds
PipeFill ==
    /\ \/ pc = "seq" /\ sq.state = "reading"
       \/ pc = "parse"
    /\ taken < Len(pipebuf)
    /\ taken' = Len(pipebuf)
    /\ UNCHANGED <<ark_path, scp_path, scp_arg, fs, stdout, fd, pc, exc, written,
                   readerVars, sq, proc, pipebuf, monitor, intr>>

\* what the command of an index pipe address may write
PipeIndexOuts == IndexTexts(MaxPipeLines)

\* ScriptReader(ark_scp) on a pipe address, up to the point where pipe_fopen
\* either returns p.stdout or, called with background=False, runs
\* background_command_waiter in the main thread and waits in p.wait()
NewPipeReader(fname) ==
    /\ pc = "start"
    /\ Truthy(fname) /\ IsPipe(fname)
    /\ LET o == Fopen(fname, "r", fs)
       IN  IF o.exc # "none"
           THEN /\ exc' = o.exc
                /\ pc' = "readerFailed"
                /\ UNCHANGED <<fd, proc, monitor>>
           ELSE /\ \E out \in PipeIndexOuts, rc \in {0, 1} : proc' = Spawned(out, rc)
                /\ exc' = "none"
                /\ IF o.background
                   THEN /\ monitor' = "waiting"
                        /\ pc' = "parse"
                        /\ fd' = [fd EXCEPT !["idx"] = Handle(o.kind, o.path, "r")]
                   ELSE /\ pc' = "wait"
                        /\ UNCHANGED <<fd, monitor>>
    /\ UNCHANGED <<ark_path, scp_path, scp_arg, fs, stdout, written, readerVars, sq,
                   pipebuf, taken, intr>>

\* p.wait() in the main thread returns: on a non-zero status
\* background_command_waiter warns and calls _thread.interrupt_main(), which
\* raises KeyboardInterrupt in the calling main thread; otherwise pipe_fopen
\* returns p.stdout
WaitReturn ==
    /\ pc = "wait" /\ proc.state = "exited"
    /\ IF WaiterInterrupts(proc.rc)
       THEN /\ intr' = [state |-> "raised", at |-> "open"]
            /\ exc' = "KeyboardInterrupt"
            /\ pc' = "interrupted"
            /\ UNCHANGED fd
       ELSE /\ pc' = "parse"
            /\ fd' = [fd EXCEPT !["idx"] = Handle("pipe", <<>>, "r")]
            /\ UNCHANGED <<intr, exc>>
    /\ UNCHANGED <<ark_path, scp_path, scp_arg, fs, stdout, written, readerVars, sq,
                   proc, pipebuf, taken, monitor>>

\* the line loop of parse_scps reaches the end of the pipe: the index is
\* built, or parsing raises, and ext_open.__exit__ runs
ParsePipe(fname) ==
    /\ pc = "parse"
    /\ StreamEnded(fd["idx"])
    /\ LET r == ParseScps(StreamBytes(fd["idx"]), "script")
       IN  /\ fd' = [fd EXCEPT !["idx"] = ScpExit(fname, @, r)]
           /\ exc' = r.exc
           /\ op' = [NoOp EXCEPT !.name = "parse", !.exc = r.exc, !.n = r.line]
           /\ pc' = IF r.exc = "none" THEN "reader" ELSE "readerFailed"
           /\ index_dict' = r.dict
           /\ index_keys' = KeysOf(r.dict)
    /\ UNCHANGED <<ark_path, scp_path, scp_arg, fs, stdout, written, it, sq, pipeVars>>

\* the loop over the reader is over and the main thread goes on
SeqFinish ==
    /\ pc = "seq" /\ sq.state \in {"done", "failed", "abandoned"}
    /\ pc' = "after"
    /\ UNCHANGED <<ark_path, scp_path, scp_arg, fs, stdout, fd, exc, written, readerVars,
                   sq, pipeVars>>

\* the program ends
MainExit ==
    /\ pc \in {"after", "reader", "readerFailed"}
    /\ pc' = "exit"
    /\ UNCHANGED <<ark_path, scp_path, scp_arg, fs, stdout, fd, exc, written, readerVars,
                   sq, pipeVars>>

InitPipe ==
    /\ ark_path = PipeAddr
    /\ scp_path = NoneV
    /\ scp_arg = NoneV
    /\ fs = [p \in FilePaths |-> Absent]
    /\ stdout = <<>>
    /\ fd = NoFd
    /\ pc = "start"
    /\ exc = "none"
    /\ written = <<>>
    /\ index_dict = <<>>
    /\ index_keys = <<>>
    /\ op = NoOp
    /\ it = NoIter
    /\ sq = NoSeq
    /\ proc = NoProc
    /\ pipebuf = <<>>
    /\ taken = 0
    /\ monitor = "none"
    /\ intr = NoIntr

NextPipe ==
    \/ SeqStart(ark_path)
    \/ PipeSeqNext
    \/ SeqRead
    \/ PipeFill
    \/ NewPipeReader(PipeAddr)
    \/ WaitReturn
    \/ ParsePipe(PipeAddr)
    \/ SeqAbandon
    \/ SeqFinish
    \/ MainExit
    \/ ProcWrite
    \/ ProcExit
    \/ MonitorWake
    \/ Deliver

SpecPipe == InitPipe /\ [][NextPipe]_vars

\* ================================================================ claims
\* a key that is one token: not empty and free of whitespace
ValidKey(k) == k # <<>> /\ \A i \in 1..Len(k) : k[i] \notin Whitespace
NoSpace(p) == \A i \in 1..Len(p) : p[i] \notin Whitespace
DistinctKeys(w) == \A i, j \in 1..Len(w) : i # j => w[i].key # w[j].key
IsFilePath(p) == Truthy(p) /\ ~IsStd(p) /\ ~IsPipe(p)

\* a ScriptReader has been built, or has failed to be built, over the index
\* a writer scope with a file archive and an index file wrote
ReadBack ==
    /\ pc \in {"reader", "readerFailed"}
    /\ IsFilePath(ark_path) /\ IsFilePath(scp_path)
    /\ DistinctKeys(written)

\* the reader returns, for every written record, the payload written under its
\* key, found at the recorded offset right behind the binary sentinel
ReturnsWritten ==
    /\ pc = "reader"
    /\ \A i \in 1..Len(written) :
          /\ written[i].key \in DictKeys(index_dict)
          /\ GetStr(index_dict, index_keys, written[i].key, fs)
               = [exc |-> "none", key |-> written[i].key,
                  val |-> written[i].val, loads |-> 1]
          /\ LET a == DictGet(index_dict, written[i].key)
             IN  /\ a.path = AbsPath(ark_path)
                 /\ ExpectBinary(fs[a.path], a.offset)
                 /\ ReadGeneralMat(fs[a.path], a.offset + 2).val = written[i].val

\* C1 as stated: records with pairwise distinct keys written to a file archive
\* with an index file are all returned, payload for payload, by a ScriptReader
\* built afterwards over the index.
C1_AsStated == ReadBack => ReturnsWritten

\* C1 amended: the round trip holds when every key is a single token (not
\* empty, no whitespace) and the absolute archive path holds no whitespace.
C1_RoundTrip ==
    (/\ ReadBack
     /\ \A i \in 1..Len(written) : ValidKey(written[i].key)
     /\ NoSpace(AbsPath(ark_path)))
    => ReturnsWritten

\* two records read back by key, the second from a two-digit offset
C1_Witness ==
    /\ ReadBack /\ pc = "reader"
    /\ Len(written) = 2
    /\ \A i \in 1..2 : ValidKey(written[i].key)
    /\ op.name = "getstr" /\ op.exc = "none"
    /\ op.argK = written[2].key /\ op.val = written[2].val
    /\ op.val = <<"x", "y">>
    /\ DictGet(index_dict, written[2].key).offset >= 10

\* the pairs a sequential iteration has yielded are the first written ones
IsPrefix(a, b) == Len(a) <= Len(b) /\ a = SubSeq(b, 1, Len(a))
SeqOverWritten == pc = "seq" /\ sq.src = ark_path /\ IsFilePath(ark_path)
YieldsWritten ==
    /\ sq.state # "failed"
    /\ IsPrefix(sq.yielded, written)
    /\ sq.state = "done" => sq.yielded = written

IndexFileLines == FileLines(fs[AbsPath(scp_path)])
IndexFileLinesText == fs[AbsPath(scp_path)]
KeysInOrder == [i \in 1..Len(IndexFileLines) |-> StripSplit(IndexFileLines[i])[1]]

\* C5: get(i) for 0 <= i < length() loads and returns what get(keys_in_order[i])
\* does; get(i) for i < 0 or i >= length() fails with the out-of-range error
\* and loads nothing.
C5_IntegerSelector ==
    (pc = "reader" /\ op.name = "getint") =>
        IF 0 <= op.argI /\ op.argI < Len(KeysInOrder)
        THEN LET g == GetStr(index_dict, index_keys, KeysInOrder[op.argI + 1], fs)
             IN  /\ op.key = KeysInOrder[op.argI + 1]
                 /\ op.loads = 1 /\ g.loads = 1
                 /\ g.exc = op.exc /\ g.val = op.val
        ELSE op.exc = "KeyError:range" /\ op.loads = 0 /\ op.val = <<>>

\* get(1) has returned the second of two written records
C5_Witness ==
    /\ pc = "reader" /\ op.name = "getint" /\ op.argI = 1
    /\ Len(written) = 2 /\ op.exc = "none" /\ op.val = <<"x", "y">>
    /\ op.key = <<"a">> /\ written[1].key = <<"b">>
    /\ written[2] = [key |-> <<"a">>, val |-> <<"x", "y">>]

\* C9: an iteration yields the indexed keys in the order of the index lines,
\* each with what its load returns, one load per step, and ends after length()
\* pairs (a step whose load raises ends it with that error); a call of
\* iterate() made after an earlier iteration was left partly consumed starts
\* again at the first key.
C9_Iterate ==
    (pc = "reader" /\ it.state # "none") =>
        /\ Len(it.yielded) <= Len(KeysInOrder)
        /\ \A i \in 1..Len(it.yielded) :
              /\ it.yielded[i].key = KeysInOrder[i]
              /\ ScriptLoad(index_dict, KeysInOrder[i], fs)
                   = [exc |-> "none", val |-> it.yielded[i].val]
        /\ it.pos = Len(it.yielded)
        /\ IF it.state = "failed"
           THEN /\ it.loads = Len(it.yielded) + 1
                /\ it.exc = ScriptLoad(index_dict, KeysInOrder[it.pos + 1], fs).exc
                /\ it.exc # "none"
           ELSE it.loads = Len(it.yielded)
        /\ it.state = "done" =>
              /\ Len(it.yielded) = ReaderLen(index_dict, index_keys)
              /\ Len(it.yielded) = Len(KeysInOrder)
        /\ (\A i \in 1..Len(written) : ValidKey(written[i].key))
              /\ NoSpace(AbsPath(ark_path))
              => /\ it.state # "failed"
                 /\ IsPrefix(it.yielded, written)

\* a second iteration, begun after a partly consumed one, has run to its end
C9_Witness ==
    /\ pc = "reader" /\ it.state = "done" /\ it.after = "partial"
    /\ Len(written) = 2 /\ it.yielded = written
    /\ written[1].key = <<"b">> /\ written[2].key = <<"a">>

\* the scope has been left
Exited == pc \notin {"new", "scope", "raising", "enterFailed"}

\* C10: inside the scope the archive stream is open for binary writing and the
\* index stream, if an index address is present, for text writing; once the
\* scope has been left, normally or by an exception a write raised, every
\* file-backed stream it opened is closed.
C10_ScopeCloses ==
    /\ pc \in {"scope", "raising"} =>
          /\ fd["ark"].kind \in {"file", "stdout"} /\ fd["ark"].mode = "wb"
          /\ ~fd["ark"].closed
          /\ IF Truthy(scp_path)
             THEN /\ fd["scp"].kind \in {"file", "stdout"} /\ fd["scp"].mode = "w"
                  /\ ~fd["scp"].closed
             ELSE fd["scp"].kind = "none"
    /\ Exited => \A s \in {"ark", "scp"} : fd[s].kind = "file" => fd[s].closed

\* a write raised, the scope was left, and both files are closed
C10_Witness ==
    /\ pc = "closedErr" /\ exc = "TypeError"
    /\ Len(written) = 1
    /\ fd["ark"].kind = "file" /\ fd["ark"].closed
    /\ fd["scp"].kind = "file" /\ fd["scp"].closed

\* C8: a pipe address opened for writing, as the archive or the index target of
\* a Writer scope, fails on entry with the RuntimeError of pipe_fopen; no
\* subprocess is spawned, no monitor started and no stream returned for it.
C8_WritePipe ==
    \A s \in {"ark", "scp"} :
        LET a == IF s = "ark" THEN ark_path ELSE scp_path
        IN  (Truthy(a) /\ IsPipe(a)) =>
              /\ pc \in {"new", "enterFailed"}
              /\ proc = NoProc /\ monitor = "none"
              /\ fd[s] = Unset
              /\ pc = "enterFailed" => exc = "RuntimeError"

\* entry has failed on a pipe address as index target
C8_Witness ==
    /\ pc = "enterFailed" /\ exc = "RuntimeError"
    /\ IsPipe(scp_path) /\ IsFilePath(ark_path)
    /\ proc = NoProc /\ fd["scp"] = Unset

\* ---- the index file as text: its lines, their tokens, where parsing stops
LineTokens(i) == StripSplit(IndexFileLines[i])
\* line i has not exactly two tokens
Malformed(i) == Len(LineTokens(i)) # 2
\* line i is not empty and has not exactly two tokens
MalformedNonEmpty(i) == IndexFileLines[i] # <<NL>> /\ Malformed(i)
\* line i has two tokens and its key is the key of an earlier two-token line
Repeats(i) ==
    /\ ~Malformed(i)
    /\ \E j \in 1..(i - 1) : ~Malformed(j) /\ LineTokens(j)[1] = LineTokens(i)[1]
\* line i has two tokens, a new key and an address that is not path:offset
Rejected(i) ==
    /\ ~Malformed(i) /\ ~Repeats(i)
    /\ LET t == Split(LineTokens(i)[2], ":")
       IN  Len(t) = 1 \/ ~ParseInt(t[Len(t)]).ok
Fails(i) == Malformed(i) \/ Repeats(i) \/ Rejected(i)
Parsed == pc \in {"reader", "readerFailed"} /\ op.name = "parse"
NumLines == Len(IndexFileLines)

\* C4: a reader built from an index file of N unique keys has length N, and
\* contains(k) is true exactly for the keys of the file's lines; neither
\* operation loads, opens a stream or changes the index.
C4_LenContainsState ==
    pc = "reader" =>
        /\ op.name = "len" =>
              /\ op.n = NumLines
              /\ op.n = Cardinality({KeysInOrder[i] : i \in 1..NumLines})
        /\ op.name = "contains" =>
              op.b = (\E i \in 1..NumLines : KeysInOrder[i] = op.argK)
        /\ op.name \in {"len", "contains"} => op.loads = 0 /\ op.exc = "none"
C4_LenContains ==
    /\ []C4_LenContainsState
    /\ [][(pc = "reader" /\ op' # op /\ op'.name \in {"len", "contains"})
            => UNCHANGED <<fs, fd, stdout, index_dict, index_keys, proc>>]_vars

\* contains() has answered TRUE over an index of two keys
C4_Witness ==
    /\ pc = "reader" /\ op.name = "contains" /\ op.b /\ op.argK = <<"b">>
    /\ NumLines = 2 /\ ReaderLen(index_dict, index_keys) = 2

\* C6 as stated: only non-empty lines are checked; the first of them that has
\* not two tokens fails parsing with its line number, and a file whose
\* non-empty lines all have two tokens and unique keys parses.
C6_AsStated ==
    Parsed =>
        /\ \A i \in 1..NumLines :
              (MalformedNonEmpty(i) /\ \A j \in 1..(i - 1) : ~Fails(j) \/ IndexFileLines[j] = <<NL>>)
                 => pc = "readerFailed" /\ op.exc = "RuntimeError:format" /\ op.n = i
        /\ (\A i \in 1..NumLines : IndexFileLines[i] # <<NL>> => ~Fails(i))
              => pc = "reader"

\* C6 amended: every line is checked, the empty ones too; the first line that
\* has not two tokens (none, one, three or more) fails parsing with its line
\* number, and a file whose lines all have two tokens, unique keys and
\* path:offset addresses parses.
C6_TokenCount ==
    Parsed =>
        /\ \A i \in 1..NumLines :
              (Malformed(i) /\ \A j \in 1..(i - 1) : ~Fails(j))
                 => pc = "readerFailed" /\ op.exc = "RuntimeError:format" /\ op.n = i
        /\ (\A i \in 1..NumLines : ~Fails(i))
              => pc = "reader" /\ ReaderLen(index_dict, index_keys) = NumLines

\* parsing has failed on the third line, which has three tokens
C6_Witness ==
    /\ Parsed /\ pc = "readerFailed" /\ op.exc = "RuntimeError:format"
    /\ op.n = 3 /\ NumLines = 3 /\ Len(LineTokens(3)) = 3

\* C7 as stated: two lines sharing a key make parsing fail with the
\* duplicate-key error at the second of them, and no index is returned.
C7_AsStated ==
    Parsed =>
        \A i \in 1..NumLines :
            (Repeats(i) /\ \A j \in 1..(i - 1) : ~Repeats(j))
               => /\ pc = "readerFailed" /\ index_dict = <<>>
                  /\ op.exc = "ValueError:duplicate" /\ op.n = i

\* C7 amended: two lines sharing a key make parsing fail and no index is
\* returned; the error is the duplicate-key error at the second of them unless
\* an earlier line already failed (wrong token count, rejected address).
C7_DuplicateKey ==
    Parsed =>
        \A i \in 1..NumLines :
            (Repeats(i) /\ \A j \in 1..(i - 1) : ~Repeats(j))
               => /\ pc = "readerFailed" /\ index_dict = <<>> /\ index_keys = <<>>
                  /\ op.exc # "none"
                  /\ (\A j \in 1..(i - 1) : ~Fails(j))
                        => op.exc = "ValueError:duplicate" /\ op.n = i

\* the third line repeats the key of the first with another address
C7_Witness ==
    /\ Parsed /\ pc = "readerFailed" /\ op.exc = "ValueError:duplicate"
    /\ NumLines = 3 /\ op.n = 3
    /\ LineTokens(1)[1] = LineTokens(3)[1] /\ LineTokens(1)[2] # LineTokens(3)[2]
    /\ LineTokens(2)[1] = <<"b">>

\* the command of the pipe source has exited, or will exit, with a non-zero
\* status
CommandFails == proc.state # "none" /\ proc.rc # 0

\* C3 as stated: when the command of a pipe read source exits non-zero, the
\* iteration never completes normally unless a failure has been raised into
\* the consuming context.
C3_AsStated ==
    (CommandFails /\ sq.state = "done") => intr.state = "raised"

\* C3 amended: the monitor, once it has seen the non-zero exit, has posted an
\* interrupt to the main thread, and an iteration in progress when the
\* interrupt is raised ends with it, not normally; an iteration that reached
\* the end of the stream before that has completed normally, the interrupt
\* being raised after it or not at all.
C3_BestEffort ==
    /\ (CommandFails /\ monitor = "done") => intr.state \in {"pending", "raised"}
    /\ (intr.state = "raised" /\ intr.at = "iteration")
          => sq.state = "interrupted" /\ exc = "KeyboardInterrupt"
    /\ (CommandFails /\ sq.state = "done")
          => intr.state \in {"none", "pending"} \/ intr.at = "after"
    /\ intr.state # "none" => CommandFails

\* the interrupt was raised in an iteration that had yielded a record
C3_Witness ==
    /\ CommandFails /\ sq.state = "interrupted" /\ intr.at = "iteration"
    /\ Len(sq.yielded) = 1 /\ monitor = "done"

\* the iteration of the sequential reader has ended: exhausted, failed in
\* decode, dropped by the consumer, or left by an interrupt
SeqEnded == sq.state \in {"done", "failed", "abandoned", "interrupted"}

RECURSIVE ArchiveBytes(_)
ArchiveBytes(w) ==
    IF w = <<>> THEN <<>>
    ELSE ArchiveBytes(SubSeq(w, 1, Len(w) - 1))
         \o TokenBytes(w[Len(w)].key) \o BinarySymbol \o MatBytes(w[Len(w)].val)

\* C12: a Writer constructed with "-" as archive address ignores whatever
\* index address it was given: entry succeeds and opens no index stream,
\* spawns nothing, no file is created or truncated, and standard output
\* receives the archive records only, never an index line.
C12_IndexIgnored ==
    IsStd(ark_path) =>
        /\ scp_path = NoneV
        /\ pc # "enterFailed" /\ proc = NoProc
        /\ fd["scp"].kind \in {"unset", "none"}
        /\ pc # "new" => fd["scp"].kind = "none" /\ fd["ark"].kind = "stdout"
        /\ \A p \in FilePaths : fs[p] = Absent
        /\ \A i \in 1..Len(stdout) : stdout[i] \notin {TAB, NL}
        /\ pc \in {"scope", "closed"} => stdout = ArchiveBytes(written)

\* two records went to standard output from a Writer that was given an index
\* file address
C12_Witness ==
    /\ IsStd(ark_path) /\ scp_arg = ScpFile
    /\ pc = "closed" /\ Len(written) = 2
    /\ stdout = ArchiveBytes(written) /\ fs[ScpFile] = Absent

\* the addresses and modes _fopen is called with
Addresses == ArkPaths \cup ScpPaths \cup {<<>>}
Modes == {"r", "rb", "w", "wb"}

\* C13: what closing does depends on the kind of the source only: for every
\* address and mode, closing the stream _fopen returned for it does not raise,
\* and it closes the stream exactly when the stream is a file (never for "-",
\* a pipe address or an absent source); so no standard stream or pipe held by
\* the program is ever closed, and a closed scope has left standard output
\* open.
C13_CloseByKind ==
    /\ \A a \in Addresses, m \in Modes :
          LET o == Fopen(a, m, fs)
              h == Handle(o.kind, o.path, m)
          IN  o.exc = "none" =>
                /\ ~FcloseRaises(a, h)
                /\ FcloseCloses(a, h) <=> (o.kind = "file")
                /\ Fclose(a, h) = [h EXCEPT !.closed = (o.kind = "file")]
                /\ (IsStd(a) => o.kind \in {"stdout", "stdin"})
                /\ (~Truthy(a) => o.kind = "none")
                /\ (Truthy(a) /\ IsPipe(a) => o.kind = "pipe")
    /\ \A s \in DOMAIN fd : fd[s].closed => fd[s].kind = "file"
    /\ Exited => \A s \in {"ark", "scp"} :
                    fd[s].closed <=> fd[s].kind = "file"

\* a scope writing the archive to a file and the index to standard output has
\* been left: the file is closed, standard output is not
C13_Witness ==
    /\ pc = "closed" /\ Len(written) = 1
    /\ fd["ark"].kind = "file" /\ fd["ark"].closed
    /\ fd["scp"].kind = "stdout" /\ ~fd["scp"].closed
    /\ stdout # <<>>

\* the last Reader operation was a get whose selector names no entry
FailedGet(o) ==
    \/ o.name = "getint" /\ (o.argI < 0 \/ o.argI >= Len(index_keys))
    \/ o.name = "getstr" /\ o.argK \notin DictKeys(index_dict)

\* C14, the state part: a get whose selector names no entry raises the lookup
\* error and loads nothing, and the reader goes on holding the index parsed
\* from its script at construction, keys in the order of the lines.
C14_FailedGetState ==
    pc = "reader" =>
        /\ FailedGet(op) => /\ op.exc \in {"KeyError:range", "KeyError:missing"}
                             /\ op.loads = 0 /\ op.val = <<>>
        /\ (op.name \in {"getint", "getstr"} /\ ~FailedGet(op)) => op.loads = 1
        /\ index_dict = ParseScps(IndexFileLinesText, "script").dict
        /\ index_keys = KeysOf(index_dict)
        /\ index_keys = KeysInOrder

\* C14: a failed get raises for that call only and leaves the reader as it
\* was: index, key order, files, streams and the generator of an iteration are
\* unchanged by it, so length(), contains(), get() and iterate() answer after
\* it what they answered before; and no step of a constructed reader changes
\* the index or the key order.
C14_FailedGet ==
    /\ []C14_FailedGetState
    /\ [][(pc = "reader" /\ pc' = "reader")
            => UNCHANGED <<index_dict, index_keys, fs>>]_vars
    /\ [][(pc = "reader" /\ op' # op /\ FailedGet(op'))
            => /\ UNCHANGED <<index_dict, index_keys, fs, fd, it, pc>>
               /\ ReaderLen(index_dict', index_keys') = ReaderLen(index_dict, index_keys)
               /\ \A k \in Keys :
                     /\ ReaderContains(index_dict', k) = ReaderContains(index_dict, k)
                     /\ GetStr(index_dict', index_keys', k, fs')
                          = GetStr(index_dict, index_keys, k, fs)
               /\ \A i \in -1..(MaxLines + 1) :
                     GetInt(index_dict', index_keys', i, fs')
                       = GetInt(index_dict, index_keys, i, fs)
               /\ IterStep(NewIter(it'), index_dict', index_keys', fs')
                     = IterStep(NewIter(it), index_dict, index_keys, fs)]_vars

\* get(2) on a reader of two entries has failed after an iteration had run to
\* its end
C14_Witness ==
    /\ pc = "reader" /\ Len(index_keys) = 2
    /\ op.name = "getint" /\ op.argI = 2 /\ op.exc = "KeyError:range"
    /\ it.state = "done" /\ Len(it.yielded) = 2

\* the main thread waits in p.wait() for a command that waits for room in
\* the pipe only the main thread can make
MainStuck ==
    /\ pc = "wait" /\ proc.state = "running"
    /\ proc.todo # <<>> /\ Len(pipebuf) - taken >= PipeCap

\* C15 as stated: the main thread never blocks for good on a pipe source:
\* opening a pipe address for reading does not wait for the command to exit,
\* so a command that still has output to write never faces a full pipe that
\* nobody reads.
C15_AsStated == ~MainStuck

\* the errors the line loop of parse_scps raises
ParseErrors ==
    {"RuntimeError:format", "ValueError:duplicate", "ValueError:address",
     "ValueError:int"}

\* C16: when the line loop of parse_scps raises (wrong token count, repeated
\* key, rejected address), construction fails: the entries parsed so far are
\* gone, no Reader operation ever runs on them, and the index file is closed,
\* as it is after a parse that succeeded.
C16_ParseAbort ==
    /\ (Parsed /\ op.exc \in ParseErrors) =>
          /\ pc = "readerFailed" /\ exc = op.exc
          /\ index_dict = <<>> /\ index_keys = <<>>
          /\ it = NoIter
          /\ fd["idx"].kind = "file" /\ fd["idx"].closed
          /\ op.n \in 1..NumLines /\ Fails(op.n)
          /\ \A j \in 1..(op.n - 1) : ~Fails(j)
    /\ (Parsed /\ op.exc = "none") =>
          /\ pc = "reader"
          /\ fd["idx"].kind = "file" /\ fd["idx"].closed
    /\ pc = "readerFailed" => op.name = "parse" /\ op.exc # "none"

\* parsing failed at the second of three lines, on its address, after the
\* first line had been entered into the index; nothing of it is left and the
\* file is closed
C16_Witness ==
    /\ Parsed /\ pc = "readerFailed" /\ op.exc = "ValueError:address"
    /\ op.n = 2 /\ NumLines = 3
    /\ ~Fails(1) /\ LineTokens(1)[1] # LineTokens(2)[1]
    /\ index_dict = <<>> /\ fd["idx"].kind = "file" /\ fd["idx"].closed

\* a writer scope has been entered with an index stream open
WithIndex ==
    pc \notin {"new", "enterFailed"} /\ fd["scp"].kind \in {"file", "stdout"}
\* what the index stream has received
IndexContent == IF fd["scp"].kind = "file" THEN fs[fd["scp"].path] ELSE stdout
\* the archive position behind the key token of the i-th written record
OffsetOf(i) ==
    Len(ArchiveBytes(SubSeq(written, 1, i - 1))) + Len(TokenBytes(written[i].key))
\* the index entries of the first n written records
RECURSIVE IndexEntries(_)
IndexEntries(n) ==
    IF n = 0 THEN <<>>
    ELSE IndexEntries(n - 1) \o IndexLine(written[n].key, ark_path, OffsetOf(n))

C18_AsStated ==
    pc = "enterFailed" =>
        \A s \in {"ark", "scp"} : fd[s].kind = "file" => fd[s].closed

\* C19 as stated: when the consumer had finished the iteration over a pipe
\* source (exhausted or abandoned it) before the command exited with a
\* non-zero status, no failure is raised in the main thread afterwards.
C19_AsStated == ~(proc.late /\ intr.state = "raised")

====
